---- MODULE Spec2Model ----
(***************************************************************************)
(* Model of the Bunny Storage backend (server/src/storage/bunny.rs).       *)
(*                                                                         *)
(* Strings are sequences of one-character strings, so that the URL         *)
(* formatting of the backend and the path routing of the storage service   *)
(* are real computations.  Byte strings are sequences over Bytes.          *)
(*                                                                         *)
(* Each caller in Procs runs one operation of the backend at a time; an    *)
(* operation advances from one await point to the next, and the callers    *)
(* interleave freely at those points (the backend takes no lock).          *)
(***************************************************************************)
EXTENDS Integers, Sequences, FiniteSets, TLC

VARIABLES
    pc,        \* pc[p]: the await point caller p is suspended at
    op,        \* op[p]: the invocation p is running (arguments and locals)
    result,    \* result[p]: what the invocation returned
    inflight,  \* inflight[p]: the HTTP request p is awaiting, if any
    nreq,      \* nreq[p]: HTTP requests issued by p's current invocation
    resp,      \* resp[p]: how p's last request ended (0 none, -1 transport)
    store,     \* the storage zone: object key -> object
    hist,      \* hist[name]: what is known of the name's latest upload or delete
    obs,       \* obs[p]: hist of the name when p's GET request ended
    calls      \* invocations the callers may still start

vars == <<pc, op, result, inflight, nreq, resp, store, hist, obs, calls>>

----------------------------------------------------------------------------
(* Bounds and input domains *)

MaxBodyLen == 1

\* Invocations started in one run: by two concurrent callers, by a single caller
MaxCalls == 2

MaxSeqCalls == 5

Procs == {"p1", "p2"}

Bytes == {0, 1}

Bodies == UNION {[1..n -> Bytes] : n \in 0..MaxBodyLen}

Slash == <<"/">>

\* Object names supplied by callers.  All are valid URL path segments; the
\* second one contains the text of access_key.
Names == {<<"a">>, <<"K", "a">>}

Variants == {"Bunny", "S3", "Local"}

\* Remote file references: the Bunny ones, and those of the other backends
RemoteFiles ==
    [variant : {"Bunny"}, key : Names] \cup [variant : Variants \ {"Bunny"}, key : {<<"a">>}]

----------------------------------------------------------------------------
(* Configuration (BunnyStorageConfig) *)

bucket == <<"b">>

api_endpoint == <<"s">>

cdn_endpoint == <<"c">>

access_key == <<"K">>

----------------------------------------------------------------------------
(* Values *)

NoObject == [present |-> FALSE, data |-> <<>>]

Object(b) == [present |-> TRUE, data |-> b]

NoReq == [method |-> "NONE", url |-> <<>>, headers |-> {}, body |-> <<>>]

NoValue == [variant |-> "None"]

NoResult == [tag |-> "none", value |-> NoValue, cause |-> <<>>]

Ok(v) == [tag |-> "Ok", value |-> v, cause |-> <<>>]

\* ServerError::storage_error(e) and ErrorKind::StorageError(e): the one error
\* kind of the backend, carrying its cause
StorageError(cause) == [tag |-> "Err", value |-> [variant |-> "StorageError"], cause |-> cause]

Unit == [variant |-> "Unit"]

AsyncRead(b) == [variant |-> "AsyncRead", bytes |-> b]

Url(u) == [variant |-> "Url", url |-> u]

BunnyRemoteFile(name) == [variant |-> "Bunny", key |-> name]

IoCause == <<"i", "o">>

SendCause == <<"s", "e", "n", "d">>

StatusCause == <<"s", "t", "a", "t", "u", "s">>

BodyCause == <<"b", "o", "d", "y">>

NoFile == [variant |-> "None", key |-> <<>>]

NoOp == [kind |-> "none", name |-> <<>>, file |-> NoFile,
         prefer_stream |-> FALSE, src |-> <<>>, rest |-> <<>>, body |-> <<>>,
         got |-> <<>>, second |-> FALSE]

\* The history of a name:
\*   "uploading" by p    p's upload_file is running and no other upload or
\*                       delete of the name has run since it was called
\*   "uploaded" data     such an upload returned success with source bytes
\*                       data, and no upload or delete was called since
\*   "deleting" by p     p's delete was called in history "uploaded" and no
\*                       other upload or delete was called since
\*   "gone_after_upload" such a delete returned success, no upload since
\*   "gone"              some other delete returned success while no upload
\*                       was running, and no upload was called since
\*   "unknown"           anything else
Hist(tag, data, by) == [tag |-> tag, data |-> data, by |-> by]

Unknown == Hist("unknown", <<>>, "none")

GoneTags == {"gone", "gone_after_upload"}

Contains(s, t) ==
    \E i \in 1..(Len(s) - Len(t) + 1) : SubSeq(s, i, i + Len(t) - 1) = t

StripPrefix(s, prefix) ==
    IF Len(s) >= Len(prefix) /\ SubSeq(s, 1, Len(prefix)) = prefix
    THEN SubSeq(s, Len(prefix) + 1, Len(s))
    ELSE <<>>

----------------------------------------------------------------------------
(* The backend's pure parts *)

\* format!("{}/{}/{name}", api_endpoint, bucket)
ApiUrl(name) == api_endpoint \o Slash \o bucket \o Slash \o name

CdnUrlWithBucket(name) == cdn_endpoint \o Slash \o bucket \o Slash \o name

\* format!("{}/{name}", cdn_endpoint)
CdnUrl(name) == cdn_endpoint \o Slash \o name

\* .header("AccessKey", &self.config.access_key)
AuthHeaders == {<<"AccessKey", access_key>>}

GetHeadersWithKey == AuthHeaders

\* client.get(url) with no .header(..) call
GetHeaders == {}

PutBodyEmpty(o) == <<>>

\* .body(body): the buffer filled by read_to_end
PutBody(o) == o.body

ReadToEndAfterAnyRead(o) == TRUE

\* read_to_end returns once a read yields zero bytes (the source is exhausted)
ReadToEndDone(o) == o.rest = <<>>

PutRequest(o) ==
    [method |-> "PUT", url |-> ApiUrl(o.name), headers |-> AuthHeaders, body |-> PutBody(o)]

DeleteRequest(o) ==
    [method |-> "DELETE", url |-> ApiUrl(o.name), headers |-> AuthHeaders, body |-> <<>>]

GetRequest(o) ==
    [method |-> "GET", url |-> CdnUrl(o.name), headers |-> GetHeaders, body |-> <<>>]

error_for_status_5xx_only(status) == status \in 500..599

\* Response::error_for_status: an error exactly for the 4xx and 5xx statuses
error_for_status(status) == status \in 400..599

IsAnyVariant(file) == TRUE

\* if let RemoteFile::Bunny(file) = file
IsBunny(file) == file.variant = "Bunny"

\* The text of the tag-mismatch cause as the specification words it
ClaimedCause ==
    <<"d", "o", "e", "s", " ", "n", "o", "t", " ",
      "u", "n", "d", "e", "r", "s", "t", "a", "n", "d", " ",
      "t", "h", "e", " ", "r", "e", "m", "o", "t", "e", " ",
      "f", "i", "l", "e", " ", "r", "e", "f", "e", "r", "e", "n", "c", "e">>

TagMismatchCauseLowerCase == ClaimedCause

\* anyhow!("Does not understand the remote file reference")
TagMismatchCause ==
    <<"D", "o", "e", "s", " ", "n", "o", "t", " ",
      "u", "n", "d", "e", "r", "s", "t", "a", "n", "d", " ",
      "t", "h", "e", " ", "r", "e", "m", "o", "t", "e", " ",
      "f", "i", "l", "e", " ", "r", "e", "f", "e", "r", "e", "n", "c", "e">>

UploadedFileWithBucket(name) == BunnyRemoteFile(bucket \o Slash \o name)

\* Ok(RemoteFile::Bunny(BunnyRemoteFile { key: name })) at the end of upload_file
UploadedFile(name) == BunnyRemoteFile(name)

SendResultNoStatusCheck(status) ==
    IF status = -1 THEN StorageError(SendCause) ELSE NoResult

\* What send().await?.error_for_status()? leaves: the error, or no error
SendResult(status) ==
    IF status = -1 THEN StorageError(SendCause)
    ELSE IF error_for_status(status) THEN StorageError(StatusCause)
    ELSE NoResult

----------------------------------------------------------------------------
(* The storage service and its pull zone, as the backend's wire protocol   *)
(* describes them: PUT and DELETE on api_endpoint/bucket/key, guarded by   *)
(* the AccessKey header, and GET on cdn_endpoint/key serving the same      *)
(* objects without authentication.                                         *)

StorageKey(url) == StripPrefix(url, api_endpoint \o Slash \o bucket \o Slash)

PullZoneKey(url) == StripPrefix(url, cdn_endpoint \o Slash)

Authorized(req) == <<"AccessKey", access_key>> \in req.headers

Reply(status, body, st, applied) ==
    [status |-> status, body |-> body, store |-> st, applied |-> applied]

ServerPut(req, st) ==
    LET key == StorageKey(req.url) IN
    IF ~Authorized(req) THEN Reply(401, <<>>, st, FALSE)
    ELSE IF key \notin DOMAIN st THEN Reply(400, <<>>, st, FALSE)
    ELSE Reply(201, <<>>, [st EXCEPT ![key] = Object(req.body)], TRUE)

ServerDelete(req, st) ==
    LET key == StorageKey(req.url) IN
    IF ~Authorized(req) THEN Reply(401, <<>>, st, FALSE)
    ELSE IF key \notin DOMAIN st \/ ~st[key].present THEN Reply(404, <<>>, st, FALSE)
    ELSE Reply(200, <<>>, [st EXCEPT ![key] = NoObject], TRUE)

ServerGet(req, st) ==
    LET key == PullZoneKey(req.url) IN
    IF key \notin DOMAIN st \/ ~st[key].present THEN Reply(404, <<>>, st, FALSE)
    ELSE Reply(200, st[key].data, st, TRUE)

ServerReply(req, st) ==
    CASE req.method = "PUT" -> ServerPut(req, st)
      [] req.method = "DELETE" -> ServerDelete(req, st)
      [] OTHER -> ServerGet(req, st)

\* How one request can end: served; refused with a server error; lost before
\* it reached the service; or served with the response lost on the way back.
Exchanges(req, st) ==
    LET r == ServerReply(req, st) IN
    { r,
      Reply(500, <<>>, st, FALSE),
      Reply(-1, <<>>, st, FALSE),
      Reply(-1, <<>>, r.store, r.applied) }

\* A service that also answers with a status outside 2xx, 4xx and 5xx
\* (304 Not Modified), leaving the zone unchanged.
ExchangesAnyStatus(req, st) ==
    Exchanges(req, st) \cup {Reply(304, <<>>, st, FALSE)}

----------------------------------------------------------------------------
(* The history of each name: which uploads and deletes of it have been     *)
(* called and have returned, and which of them overlapped                  *)

MutatingKinds == {"upload_file", "delete_file"}

Running(q) == pc[q] \notin {"idle", "done"}

ActiveOn(q, name, kinds) == Running(q) /\ op[q].kind \in kinds /\ op[q].name = name

\* p calls an upload or a delete of name
BeginMutation(p, name, isUpload) ==
    LET alone == \A q \in Procs \ {p} : ~ActiveOn(q, name, MutatingKinds)
        cur == hist[name]
    IN hist' = [hist EXCEPT ![name] =
          IF isUpload
          THEN IF alone THEN Hist("uploading", <<>>, p) ELSE Unknown
          ELSE IF cur.tag \in GoneTags THEN cur
          ELSE IF cur.tag = "uploaded" /\ alone THEN Hist("deleting", <<>>, p)
          ELSE Unknown]

\* p's upload of name returns
EndUpload(p, name, ok, src) ==
    LET cur == hist[name] IN
    hist' = [hist EXCEPT ![name] =
          IF cur = Hist("uploading", <<>>, p)
          THEN IF ok THEN Hist("uploaded", src, "none") ELSE Unknown
          ELSE cur]

\* p's delete of name returns
EndDelete(p, name, ok) ==
    LET cur == hist[name] IN
    hist' = [hist EXCEPT ![name] =
          IF ok
          THEN IF \E q \in Procs \ {p} : ActiveOn(q, name, {"upload_file"})
               THEN Unknown
               ELSE IF cur = Hist("deleting", <<>>, p)
                    THEN Hist("gone_after_upload", <<>>, "none")
                    ELSE Hist("gone", <<>>, "none")
          ELSE IF cur.tag \in GoneTags THEN cur ELSE Unknown]

\* An idle caller starts an invocation.
Called(p) ==
    /\ pc[p] = "idle"
    /\ calls > 0
    /\ calls' = calls - 1

\* The locals of a returned invocation are dropped; its arguments are kept
\* for the claims.
Returned(o) == [o EXCEPT !.rest = <<>>, !.body = <<>>, !.got = <<>>]

Finish(p, r) ==
    /\ result' = [result EXCEPT ![p] = r]
    /\ pc' = [pc EXCEPT ![p] = "done"]

Issue(p, req, at) ==
    /\ inflight' = [inflight EXCEPT ![p] = req]
    /\ nreq' = [nreq EXCEPT ![p] = @ + 1]
    /\ pc' = [pc EXCEPT ![p] = at]

----------------------------------------------------------------------------
(* upload_file *)

\* The call: the first await is the read of the byte source.
upload_file(p, name, src) ==
    /\ Called(p)
    /\ BeginMutation(p, name, TRUE)
    /\ op' = [op EXCEPT ![p] =
                [NoOp EXCEPT !.kind = "upload_file", !.name = name,
                             !.src = src, !.rest = src]]
    /\ pc' = [pc EXCEPT ![p] = "read_to_end"]
    /\ UNCHANGED <<result, inflight, nreq, resp, store, obs>>

\* One read of the source yields k >= 1 bytes, appended to the buffer.
UploadRead(p, k) ==
    /\ pc[p] = "read_to_end"
    /\ k \in 1..Len(op[p].rest)
    /\ op' = [op EXCEPT ![p] =
                [@ EXCEPT !.body = @ \o SubSeq(op[p].rest, 1, k),
                          !.rest = SubSeq(@, k + 1, Len(@))]]
    /\ UNCHANGED <<pc, result, inflight, nreq, resp, store, hist, obs, calls>>

\* A read of the source fails: .map_err(ServerError::storage_error)?
UploadReadErr(p) ==
    /\ pc[p] = "read_to_end"
    /\ Finish(p, StorageError(IoCause))
    /\ op' = [op EXCEPT ![p] = Returned(@)]
    /\ EndUpload(p, op[p].name, FALSE, op[p].src)
    /\ UNCHANGED <<inflight, nreq, resp, store, obs, calls>>

\* The source is exhausted: the PUT is built and sent.
UploadSend(p) ==
    /\ pc[p] = "read_to_end"
    /\ ReadToEndDone(op[p])
    /\ Issue(p, PutRequest(op[p]), "put")
    /\ op' = [op EXCEPT ![p].second =
                \E q \in Procs \ {p} :
                    /\ pc[q] = "put"
                    /\ op[q].name = op[p].name]
    /\ UNCHANGED <<result, resp, store, hist, obs, calls>>

\* send().await?.error_for_status()? and the Ok(..) that follows
PutResponse(p, ex) ==
    /\ pc[p] = "put"
    /\ store' = ex.store
    /\ resp' = [resp EXCEPT ![p] = ex.status]
    /\ inflight' = [inflight EXCEPT ![p] = NoReq]
    /\ LET r == SendResult(ex.status)
           ok == r.tag = "none"
           name == op[p].name
       IN /\ Finish(p, IF ok THEN Ok(UploadedFile(name)) ELSE r)
          /\ EndUpload(p, name, ok, op[p].src)
    /\ op' = [op EXCEPT ![p] = Returned(@)]
    /\ UNCHANGED <<nreq, obs, calls>>

----------------------------------------------------------------------------
(* delete_file and delete_file_db *)

\* The body of delete_file up to its await: the DELETE is sent at once.
Delete(p, name) ==
    /\ BeginMutation(p, name, FALSE)
    /\ op' = [op EXCEPT ![p] = [NoOp EXCEPT !.kind = "delete_file", !.name = name]]
    /\ Issue(p, DeleteRequest([name |-> name]), "delete")
    /\ UNCHANGED <<result, resp, store, obs>>

delete_file(p, name) ==
    /\ Called(p)
    /\ Delete(p, name)

\* The tag check, then self.delete_file(file.key.clone())
delete_file_db(p, file) ==
    /\ Called(p)
    /\ IF IsBunny(file)
       THEN Delete(p, file.key)
       ELSE /\ op' = [op EXCEPT ![p] = [NoOp EXCEPT !.kind = "delete_file_db", !.file = file]]
            /\ Finish(p, StorageError(TagMismatchCause))
            /\ UNCHANGED <<inflight, nreq, resp, store, hist, obs>>

DeleteResponse(p, ex) ==
    /\ pc[p] = "delete"
    /\ store' = ex.store
    /\ resp' = [resp EXCEPT ![p] = ex.status]
    /\ inflight' = [inflight EXCEPT ![p] = NoReq]
    /\ LET r == SendResult(ex.status)
           ok == r.tag = "none"
           name == op[p].name
       IN /\ Finish(p, IF ok THEN Ok(Unit) ELSE r)
          /\ EndDelete(p, name, ok)
    /\ UNCHANGED <<op, nreq, obs, calls>>

----------------------------------------------------------------------------
(* download_file and download_file_db *)

\* The body of download_file up to its await, or to its end
Download(p, name, prefer_stream) ==
    LET o == [NoOp EXCEPT !.kind = "download_file", !.name = name,
                          !.prefer_stream = prefer_stream]
    IN /\ op' = [op EXCEPT ![p] = o]
       /\ IF prefer_stream
          THEN /\ Issue(p, GetRequest(o), "get")
               /\ UNCHANGED result
          ELSE /\ Finish(p, Ok(Url(CdnUrl(name))))
               /\ UNCHANGED <<inflight, nreq>>
       /\ UNCHANGED <<resp, store, hist, obs>>

download_file(p, name, prefer_stream) ==
    /\ Called(p)
    /\ Download(p, name, prefer_stream)

\* The tag check, then self.download_file(file.key.clone(), prefer_stream)
download_file_db(p, file, prefer_stream) ==
    /\ Called(p)
    /\ IF IsBunny(file)
       THEN Download(p, file.key, prefer_stream)
       ELSE /\ op' = [op EXCEPT ![p] =
                        [NoOp EXCEPT !.kind = "download_file_db", !.file = file,
                                     !.prefer_stream = prefer_stream]]
            /\ Finish(p, StorageError(TagMismatchCause))
            /\ UNCHANGED <<inflight, nreq, resp, store, hist, obs>>

\* send().await?.error_for_status()?: the response head has arrived
GetResponse(p, ex) ==
    /\ pc[p] = "get"
    /\ store' = ex.store
    /\ resp' = [resp EXCEPT ![p] = ex.status]
    /\ inflight' = [inflight EXCEPT ![p] = NoReq]
    /\ obs' = [obs EXCEPT ![p] = hist[op[p].name]]
    /\ LET r == SendResult(ex.status) IN
       IF r.tag = "none"
       THEN /\ pc' = [pc EXCEPT ![p] = "bytes"]
            /\ op' = [op EXCEPT ![p].got = ex.body]
            /\ UNCHANGED result
       ELSE /\ Finish(p, r)
            /\ UNCHANGED op
    /\ UNCHANGED <<nreq, hist, calls>>

\* .bytes().await: the body is read into memory, or the read fails
GetBytes(p, complete) ==
    /\ pc[p] = "bytes"
    /\ Finish(p, IF complete THEN Ok(AsyncRead(op[p].got)) ELSE StorageError(BodyCause))
    /\ op' = [op EXCEPT ![p] = Returned(@)]
    /\ UNCHANGED <<inflight, nreq, resp, store, hist, obs, calls>>

----------------------------------------------------------------------------
(* make_db_reference *)

make_db_reference(p, name) ==
    /\ Called(p)
    /\ op' = [op EXCEPT ![p] = [NoOp EXCEPT !.kind = "make_db_reference", !.name = name]]
    /\ Finish(p, Ok(BunnyRemoteFile(name)))
    /\ UNCHANGED <<inflight, nreq, resp, store, hist, obs>>

----------------------------------------------------------------------------
(* The caller takes the result and is free to call again. *)

Return(p) ==
    /\ pc[p] = "done"
    /\ pc' = [pc EXCEPT ![p] = "idle"]
    /\ op' = [op EXCEPT ![p] = NoOp]
    /\ result' = [result EXCEPT ![p] = NoResult]
    /\ nreq' = [nreq EXCEPT ![p] = 0]
    /\ resp' = [resp EXCEPT ![p] = 0]
    /\ obs' = [obs EXCEPT ![p] = Unknown]
    /\ UNCHANGED <<inflight, store, hist, calls>>

----------------------------------------------------------------------------

Start(budget) ==
    /\ pc = [p \in Procs |-> "idle"]
    /\ op = [p \in Procs |-> NoOp]
    /\ result = [p \in Procs |-> NoResult]
    /\ inflight = [p \in Procs |-> NoReq]
    /\ nreq = [p \in Procs |-> 0]
    /\ resp = [p \in Procs |-> 0]
    /\ store = [k \in Names |-> NoObject]
    /\ hist = [k \in Names |-> Unknown]
    /\ obs = [p \in Procs |-> Unknown]
    /\ calls = budget

\* Two callers sharing the backend, against a service that keeps to the wire
\* protocol.
Init == Start(MaxCalls)

Next ==
    \E p \in Procs :
        \/ \E name \in Names, src \in Bodies : upload_file(p, name, src)
        \/ \E k \in 1..MaxBodyLen : UploadRead(p, k)
        \/ UploadReadErr(p)
        \/ UploadSend(p)
        \/ \E ex \in Exchanges(inflight[p], store) : PutResponse(p, ex)
        \/ \E name \in Names : delete_file(p, name)
        \/ \E file \in RemoteFiles : delete_file_db(p, file)
        \/ \E ex \in Exchanges(inflight[p], store) : DeleteResponse(p, ex)
        \/ \E name \in Names, ps \in BOOLEAN : download_file(p, name, ps)
        \/ \E file \in RemoteFiles, ps \in BOOLEAN : download_file_db(p, file, ps)
        \/ \E ex \in Exchanges(inflight[p], store) : GetResponse(p, ex)
        \/ \E complete \in BOOLEAN : GetBytes(p, complete)
        \/ \E name \in Names : make_db_reference(p, name)
        \/ Return(p)

Spec == Init /\ [][Next]_vars

\* One caller making a longer sequence of calls, same service.
InitSeq == Start(MaxSeqCalls)

NextSeq ==
    \E p \in {"p1"} :
        \/ \E name \in Names, src \in Bodies : upload_file(p, name, src)
        \/ \E k \in 1..MaxBodyLen : UploadRead(p, k)
        \/ UploadReadErr(p)
        \/ UploadSend(p)
        \/ \E ex \in Exchanges(inflight[p], store) : PutResponse(p, ex)
        \/ \E name \in Names : delete_file(p, name)
        \/ \E file \in RemoteFiles : delete_file_db(p, file)
        \/ \E ex \in Exchanges(inflight[p], store) : DeleteResponse(p, ex)
        \/ \E name \in Names, ps \in BOOLEAN : download_file(p, name, ps)
        \/ \E file \in RemoteFiles, ps \in BOOLEAN : download_file_db(p, file, ps)
        \/ \E ex \in Exchanges(inflight[p], store) : GetResponse(p, ex)
        \/ \E complete \in BOOLEAN : GetBytes(p, complete)
        \/ \E name \in Names : make_db_reference(p, name)
        \/ Return(p)

SpecSeq == InitSeq /\ [][NextSeq]_vars

\* One caller against a service that may answer with any status.
NextAnyStatus ==
    \E p \in {"p1"} :
        \/ \E name \in Names, src \in Bodies : upload_file(p, name, src)
        \/ \E k \in 1..MaxBodyLen : UploadRead(p, k)
        \/ UploadReadErr(p)
        \/ UploadSend(p)
        \/ \E ex \in ExchangesAnyStatus(inflight[p], store) : PutResponse(p, ex)
        \/ \E name \in Names : delete_file(p, name)
        \/ \E file \in RemoteFiles : delete_file_db(p, file)
        \/ \E ex \in ExchangesAnyStatus(inflight[p], store) : DeleteResponse(p, ex)
        \/ \E name \in Names, ps \in BOOLEAN : download_file(p, name, ps)
        \/ \E file \in RemoteFiles, ps \in BOOLEAN : download_file_db(p, file, ps)
        \/ \E ex \in ExchangesAnyStatus(inflight[p], store) : GetResponse(p, ex)
        \/ \E complete \in BOOLEAN : GetBytes(p, complete)
        \/ \E name \in Names : make_db_reference(p, name)
        \/ Return(p)

SpecAnyStatus == InitSeq /\ [][NextAnyStatus]_vars

----------------------------------------------------------------------------
(* Claims *)

Done(p) == pc[p] = "done"

IsOk(p) == result[p].tag = "Ok"

IsStorageError(p) == result[p].tag = "Err" /\ result[p].value.variant = "StorageError"

StreamDownload(p) == op[p].kind = "download_file" /\ op[p].prefer_stream

TagMismatch(p) ==
    /\ op[p].kind \in {"delete_file_db", "download_file_db"}
    /\ op[p].file.variant # "Bunny"

\* C1: when upload_file(N, B) has returned success and no other upload or
\* delete of N was called since that upload was called, a download_file(N,
\* true) that succeeds returns an AsyncRead whose contents are exactly B.
C1_UploadThenDownload ==
    \A p \in Procs :
        (Done(p) /\ StreamDownload(p) /\ IsOk(p) /\ obs[p].tag = "uploaded")
            => result[p].value = AsyncRead(obs[p].data)

C1_Witness ==
    \E p \in Procs :
        /\ Done(p) /\ StreamDownload(p) /\ IsOk(p)
        /\ obs[p].tag = "uploaded"
        /\ obs[p].data # <<>>
        /\ result[p].value = AsyncRead(obs[p].data)
        /\ \E k \in Names \ {op[p].name} : store[k].present /\ store[k].data # obs[p].data

\* C2: after a successful upload of N followed by a successful delete of N,
\* with no upload of N since, download_file(N, true) never gets a byte source
\* and returns a storage error.
C2_DeleteThenDownload ==
    \A p \in Procs :
        (StreamDownload(p) /\ obs[p].tag \in GoneTags)
            => /\ pc[p] # "bytes"
               /\ Done(p) => IsStorageError(p)

C2_Witness ==
    \E p \in Procs :
        /\ Done(p) /\ StreamDownload(p)
        /\ obs[p].tag = "gone_after_upload"
        /\ IsStorageError(p)
        /\ resp[p] = 404

\* C3: a call of delete_file_db or download_file_db (either prefer_stream)
\* with a reference whose tag is not Bunny returns a storage error in the same
\* step, issues no HTTP request and leaves the remote store unchanged.
C3_TagMismatchFailsAtOnce ==
    [][\A p \in Procs : \A file \in RemoteFiles :
          (/\ file.variant # "Bunny"
           /\ \/ delete_file_db(p, file)
              \/ \E ps \in BOOLEAN : download_file_db(p, file, ps))
          => /\ pc'[p] = "done"
             /\ result'[p].tag = "Err"
             /\ result'[p].value.variant = "StorageError"
             /\ nreq'[p] = 0
             /\ inflight'[p] = NoReq
             /\ store' = store]_vars

C3_Witness ==
    \E p, q \in Procs :
        /\ Done(p) /\ TagMismatch(p) /\ op[p].kind = "delete_file_db"
        /\ IsStorageError(p) /\ nreq[p] = 0
        /\ Done(q) /\ TagMismatch(q) /\ op[q].kind = "download_file_db"
        /\ op[q].prefer_stream
        /\ IsStorageError(q) /\ nreq[q] = 0

\* C4 as claimed: the cause of the tag-mismatch error contains the text
\* "does not understand the remote file reference" in that letter case.
C4_CauseAsClaimed ==
    \A p \in Procs :
        (Done(p) /\ TagMismatch(p)) => Contains(result[p].cause, ClaimedCause)

\* C4: the cause of the tag-mismatch error is "Does not understand the remote
\* file reference": the claimed text with a capital first letter.
C4_CauseText ==
    \A p \in Procs :
        (Done(p) /\ TagMismatch(p))
            => /\ IsStorageError(p)
               /\ result[p].cause = <<"D">> \o Tail(ClaimedCause)

C4_Witness ==
    \E p, q \in Procs :
        /\ Done(p) /\ TagMismatch(p) /\ op[p].kind = "delete_file_db"
        /\ Done(q) /\ TagMismatch(q) /\ op[q].kind = "download_file_db"
        /\ result[p].cause = result[q].cause
        /\ Contains(result[p].cause, Tail(ClaimedCause))

\* C5: download_file(N, false) issues no HTTP request and returns
\* Ok(Url(cdn_endpoint + "/" + N)), whatever the state of the remote store.
C5_UrlDownload ==
    \A p \in Procs :
        (pc[p] # "idle" /\ op[p].kind = "download_file" /\ ~op[p].prefer_stream)
            => /\ Done(p)
               /\ result[p] = Ok(Url(cdn_endpoint \o <<"/">> \o op[p].name))
               /\ nreq[p] = 0
               /\ inflight[p] = NoReq

C5_Witness ==
    \E p \in Procs, k \in Names :
        /\ Done(p) /\ op[p].kind = "download_file" /\ ~op[p].prefer_stream
        /\ op[p].name = k
        /\ Len(k) > 1
        /\ ~store[k].present
        /\ IsOk(p)

\* C6: a successful upload_file(N, _) returns Bunny{key: N}, the value
\* make_db_reference(N) returns; make_db_reference issues no request and
\* never fails.
C6_ReferenceIsName ==
    \A p \in Procs :
        /\ (Done(p) /\ op[p].kind = "upload_file" /\ IsOk(p))
              => result[p].value = [variant |-> "Bunny", key |-> op[p].name]
        /\ (pc[p] # "idle" /\ op[p].kind = "make_db_reference")
              => /\ Done(p)
                 /\ result[p] = Ok([variant |-> "Bunny", key |-> op[p].name])
                 /\ nreq[p] = 0
                 /\ inflight[p] = NoReq

C6_Witness ==
    \E p, q \in Procs :
        /\ Done(p) /\ op[p].kind = "upload_file" /\ IsOk(p)
        /\ Done(q) /\ op[q].kind = "make_db_reference"
        /\ op[p].name = op[q].name
        /\ Len(op[p].name) > 1
        /\ result[p] = result[q]

CarriesKey(req) ==
    \/ \E h \in req.headers : Contains(h[2], access_key)
    \/ Contains(req.url, access_key)

C9_DrainThenPut ==
    [][\A p \in Procs :
          /\ (inflight[p].method # "PUT" /\ inflight'[p].method = "PUT")
                => /\ op[p].rest = <<>>
                   /\ inflight'[p].body = op[p].src
          /\ (pc[p] = "read_to_end" /\ pc'[p] = "done")
                => /\ result'[p].tag = "Err"
                   /\ result'[p].value.variant = "StorageError"
                   /\ nreq'[p] = 0
                   /\ inflight'[p] = NoReq
                   /\ store' = store]_vars

C9_Witness ==
    \E p, q \in Procs :
        /\ Done(p) /\ op[p].kind = "upload_file"
        /\ result[p] = StorageError(IoCause)
        /\ op[p].src # <<>>
        /\ nreq[p] = 0
        /\ Done(q) /\ op[q].kind = "upload_file" /\ IsOk(q)
        /\ op[q].name = op[p].name
        /\ op[q].src # <<>>
        /\ store[op[p].name] = Object(op[q].src)

\* C10: once two concurrent uploads of the same name N, with bodies B1 and B2,
\* have both returned success, the object stored under N is B1 in full or B2
\* in full.
C10_LastWriterWins ==
    \A p, q \in Procs :
        (/\ p # q
         /\ Done(p) /\ op[p].kind = "upload_file" /\ IsOk(p)
         /\ Done(q) /\ op[q].kind = "upload_file" /\ IsOk(q)
         /\ op[p].name = op[q].name)
            => store[op[p].name] \in {Object(op[p].src), Object(op[q].src)}

\* Both PUTs were in flight together, and the one sent first was applied last.
C10_Witness ==
    \E p, q \in Procs :
        /\ p # q
        /\ Done(p) /\ op[p].kind = "upload_file" /\ IsOk(p)
        /\ Done(q) /\ op[q].kind = "upload_file" /\ IsOk(q)
        /\ op[p].name = op[q].name
        /\ op[p].src # op[q].src
        /\ op[q].second
        /\ store[op[p].name] = Object(op[p].src)

====
